---- MODULE Spec2Model ----
(***************************************************************************)
(* All-Chat browser extension: the service worker's WebSocket session      *)
(* connector (background/service-worker.ts) and the Twitch content         *)
(* script's page reconciliation (content-scripts/twitch.ts on top of       *)
(* content-scripts/base/PlatformDetector.ts).                              *)
(*                                                                         *)
(* Every handler of the code is one action.  An async function is cut at   *)
(* its awaits: each piece between two awaits is one atomic step, and the   *)
(* suspended calls are kept in the state.  Timers fire at any moment once  *)
(* they are pending; the delay they were armed with is recorded.           *)
(***************************************************************************)
EXTENDS Integers, Sequences, FiniteSets, TLC

(* ----------------------------- bounds ---------------------------------- *)
MaxCalls == 2        \* connectWebSocket calls suspended at an await
MaxSockets == 2      \* WebSocket objects that have not yet delivered close
MaxInbox == 1        \* CONNECT_WEBSOCKET messages in flight from the page to the worker
MaxInits == 2        \* init() calls suspended at the channel lookup
MaxUrlTimers == 1    \* pending re-init timeouts armed by the URL watcher
MaxEnv == 2          \* events the page's environment (host, user, network) produces
MaxPagedAttempts == 1 \* the page-and-worker runs are followed while wsReconnectAttempts <= this
MaxRelay == 1        \* WS_MESSAGE broadcasts waiting for their chrome.tabs.query callback
MaxTicks == 4        \* advances of the clock that the emote cache is followed through
MaxStateQueue == 2      \* state broadcasts whose callback has not run yet
MaxStrayIntervals == 2  \* heartbeat intervals left running untracked
MaxHideCalls == 3       \* hideNativeChat calls between two showNativeChat calls
MaxMessages == 52       \* chat messages received by one overlay
MaxEnriching == 2       \* badge resolutions under way at once
MaxBadgeCalls == 3      \* fetchBadgeSets calls per cache key
MaxFrames == 3          \* frames delivered by the sockets
MaxEmoteCalls == 2   \* fetchAllEmotes calls suspended at the provider fetches

(* ------------------------- program constants --------------------------- *)
WS_MAX_RECONNECT_ATTEMPTS == 10
WS_RECONNECT_DELAY_MS == 1000
MESSAGE_WINDOW == 50
CACHE_DURATION == 5 * 60 * 1000

\* The key of a session: the value a CONNECT_WEBSOCKET request carries and
\* connectWebSocket compares with the key of the current session.  The page
\* derives it from the channel its location names, one key per channel.
Keys == {"alpha", "beta"}
NoKey == "null"

LiveRS == {"CONNECTING", "OPEN", "CLOSING"}
OrphanKinds == Keys \X LiveRS
NoSocket == [key |-> NoKey, rs |-> "NONE"]

ConnectionStates == {"connected", "connecting", "reconnecting", "disconnected", "failed"}
NoDelay == 0

\* page locations: two configured channels and a listing page for which
\* extractStreamerUsername returns null
Configured == Keys
\* two tabs, each on the channel page of one key
Tabs == {"t1", "t2"}
TabKey == [t \in Tabs |-> IF t = "t1" THEN "alpha" ELSE "beta"]
\* message.type of the inbound frames; "unparsable" is a frame JSON.parse rejects
FrameTypes == {"chat_message", "ping", "pong", "unparsable"}
LivenessFrames == {"ping", "pong"}
NoFrame == [key |-> NoKey, frame |-> "none"]
\* cacheTimestamps has no entry for the key
NoStamp == -1
\* how far the clock moves between two events: a millisecond, or one
\* millisecond less than the cache duration
TickSizes == {1, CACHE_DURATION - 1}
\* fetchAllEmotes has not been called yet
NoCall == [ch |-> NoKey, now |-> NoStamp, cached |-> FALSE]
\* the native chat elements of a YouTube page that getChatContainerSelector
\* matches: #chat-container, ytd-live-chat-frame, .yt-live-chat-app
YtNodes == {"container", "frame", "app"}

Locations == Keys \cup {"directory"}
\* further locations: the root path "" (no first segment), an excluded page
\* written with a capital, and a channel the lookup does not know
AllLocations == Locations \cup {"", "Directory", "gamma"}
\* what extractStreamerUsername can hand to init(): any first path segment
Usernames == AllLocations \ {""}

\* what the host page currently renders of its chat column:
\* "none" no right column, "column" the right column without the message
\* container, "full" the right column with .chat-scrollable-area__message-container
HostStates == {"none", "column", "full"}

\* which timer started an init() call: the load/URL-change timeouts, or the
\* mutation observer's debounced re-inject timeout
InitOrigins == {"nav", "reinit"}
InitKinds == Usernames \X InitOrigins

VARIABLES
    wsConnection,           \* the socket the worker references (or NoSocket)
    wsStreamerUsername,     \* key of the session, NoKey when null
    wsReconnectAttempts,
    heartbeatInterval,      \* TRUE when the tracked interval id is non-null
    reconnectTimeoutId,     \* TRUE when the tracked timeout id is non-null
    timerPending,           \* the reconnect timeout is armed and has not fired
    timerDelay,             \* delay the armed timeout was given
    currentConnectionState,
    lastReconnectIn,        \* reconnectIn detail of the last state record
    bcastParity,            \* flips at every broadcastConnectionState call
    orphans,                \* sockets no longer referenced that may still fire events
    calls,                  \* per key, connectWebSocket calls suspended at the awaits
    swInbox,                \* runtime messages in flight to the worker
    failRun,                \* consecutive never-opened transports of a fresh session, -1 otherwise
    \* ---- the page (content script and host document) ----
    pageLoc,                \* location.href, as the channel it names
    lastUrl,                \* lastUrl of setupUrlWatcher
    hostChat,               \* what the host renders (HostStates)
    containers,             \* #allchat-container elements in document order, by data-streamer
    hideStyle,              \* the #allchat-hide-native-style element exists
    mutationPending,        \* mutation records queued for the observers: "none", "head", "body"
    reinitTimeout,          \* the observer's debounced 500 ms timeout is pending
    loadTimer,              \* the 1000 ms timeout armed by initialize() is pending
    urlTimers,              \* pending 1000 ms timeouts armed by the URL watcher
    inits,                  \* init() calls suspended at checkStreamerExists
    globalDetector,         \* TRUE when globalDetector is non-null
    observers,              \* initialize() installed the relay listener and both observers
    extensionEnabled,       \* settings.extensionEnabled in sync storage
    extMsg,                 \* EXTENSION_STATE_CHANGED in flight to the page: "none", "on", "off"
    reloadPending,          \* the popup's chrome.tabs.reload has not happened yet
    envBudget,              \* environment events still allowed (MaxEnv at the start)
    \* ---- observations of the run (never read by an action's guard or effect) ----
    scenario,               \* what the page's environment did last, when it is one of Scenarios
    resetFrom,              \* value of wsReconnectAttempts that the latest onopen set back to 0
    \* ---- the fan-out of inbound frames to the open tabs ----
    tabMounted,             \* per tab, its page has mounted its overlay iframe
    relayQueue,             \* WS_MESSAGE broadcasts whose chrome.tabs.query has not called back
    tabLast,                \* per tab, the last WS_MESSAGE its overlay iframe was posted
    \* ---- the emote cache of one overlay iframe (lib/emoteAutocomplete) ----
    clock,                  \* Date.now(), in ms since the iframe loaded
    ticks,                  \* advances of the clock so far
    cacheTimestamps,        \* per channel, the stamp of its "all:" entry (NoStamp: no entry)
    emoteCalls,             \* fetchAllEmotes calls suspended at Promise.all, with their `now`
    fetchedAt,              \* per channel, when the fetch that completed last was requested
    lastCall,               \* the latest fetchAllEmotes call: channel, time, served from the cache
    \* ---- the reconnect timeouts, counted (followed in SpecTimers only) ----
    strayTimers,            \* pending reconnect timeouts that reconnectTimeoutId does not refer to
    replacedTimer,          \* the latest onclose cancelled a pending timeout before arming its own
    \* ---- frames on their way to the overlays (followed in SpecForward only) ----
    inbound,                \* the frames the sockets have delivered, in the order of their message events
    fwdQueue,               \* WS_MESSAGE broadcasts whose chrome.tabs.query callback has not run yet
    tabLog,                 \* per tab: the payloads its relay has posted to its overlay, in order
    tabJoined,              \* per tab: how many broadcasts had been sent when its overlay mounted
    \* ---- the heartbeat intervals, counted (followed in SpecBeats only) ----
    strayIntervals,         \* running intervals that heartbeatInterval no longer refers to
    \* ---- the native chat of a page (followed in SpecNative only) ----
    hideRules,              \* Twitch: style elements with id allchat-hide-native-style in the document
    ytChat,                 \* YouTube: per native chat element "absent", "shown" or "hidden" (display none)
    hideCalls,              \* hideNativeChat calls since the last showNativeChat
    \* ---- the overlay's message list (followed in SpecMessages only) ----
    arrived,                \* chat messages received so far; their ids are 1..arrived
    messages,               \* ChatContainer's messages state
    enriching,              \* ids whose resolveTwitchBadgeIcons promise has not resolved yet
    \* ---- the Twitch badge sets (followed in SpecBadges only) ----
    badgeCache,             \* per cache key: "none" or "sets"
    inflightRequests,       \* per cache key: does inflightRequests[cacheKey] exist
    netRequests,            \* per cache key: fetch() calls that have not settled
    awaiters,               \* per cache key: callers suspended at the await
    resolving,              \* per cache key: the result being handed to the awaiters
    badgeCalls,             \* per cache key: fetchBadgeSets calls made so far
    \* ---- state records on their way to the overlay (followed in SpecOverlay only) ----
    stateQueue,             \* CONNECTION_STATE broadcasts whose chrome.tabs.query callback has not run yet
    uiStatus                \* connectionStatus of the overlay's ChatContainer, NoStatus without an overlay

swVars == <<wsConnection, wsStreamerUsername, wsReconnectAttempts, heartbeatInterval,
            reconnectTimeoutId, timerPending, timerDelay, currentConnectionState,
            lastReconnectIn, bcastParity, orphans, calls, failRun>>

pageVars == <<pageLoc, lastUrl, hostChat, containers, hideStyle, mutationPending,
              reinitTimeout, loadTimer, urlTimers, inits, globalDetector, observers,
              extensionEnabled, extMsg, reloadPending>>

\* "switch": the location went from alpha to beta while a settled overlay and
\*           a connected session for alpha existed
\* "removed": the host page removed the overlay of a settled page whose
\*           session has the page's key
\* "disabled": the disable signal was processed while the state was "connected"
\* "left": the location went to a listing page while a settled overlay and a
\*           connected session for the page's channel existed
Scenarios == {"none", "switch", "removed", "disabled", "left"}

obsVars == <<scenario, resetFrom>>

relayVars == <<tabMounted, relayQueue, tabLast>>

emoteVars == <<clock, ticks, cacheTimestamps, emoteCalls, fetchedAt, lastCall>>

\* the variables of the components that the worker and the page never touch
timerVars == <<strayTimers, replacedTimer>>

fwdVars == <<inbound, fwdQueue, tabLog, tabJoined>>

beatVars == <<strayIntervals>>

domVars == <<hideRules, ytChat, hideCalls>>

\* what only the models of the page's and the overlay's libraries follow
listVars == <<arrived, messages, enriching>>

badgeVars == <<badgeCache, inflightRequests, netRequests, awaiters, resolving, badgeCalls>>

moreVars == <<domVars, listVars, badgeVars>>

auxVars == <<emoteVars, timerVars, fwdVars, beatVars, moreVars>>

uiVars == <<stateQueue, uiStatus>>

vars == <<swVars, swInbox, pageVars, envBudget, obsVars, relayVars, auxVars, uiVars>>

(* ----------------------------- helpers --------------------------------- *)
RECURSIVE SumOver(_, _)
SumOver(f, S) == IF S = {} THEN 0
                 ELSE LET x == CHOOSE y \in S : TRUE
                      IN f[x] + SumOver(f, S \ {x})

OrphanCount == SumOver(orphans, OrphanKinds)
CallCount == SumOver(calls, Keys)
InitCount == SumOver(inits, InitKinds)

IsLive(s) == s.rs \in LiveRS
LiveCount == (IF IsLive(wsConnection) THEN 1 ELSE 0) + OrphanCount

\* sockets in the CONNECTING or OPEN state, as a set of keys and as a number
ActiveCount == (IF wsConnection.rs \in {"CONNECTING", "OPEN"} THEN 1 ELSE 0)
               + SumOver(orphans, Keys \X {"CONNECTING", "OPEN"})

AddTo(f, x) == [f EXCEPT ![x] = @ + 1]
RemoveFrom(f, x) == [f EXCEPT ![x] = @ - 1]

\* WebSocket.close(): CONNECTING/OPEN become CLOSING, otherwise nothing
CloseSocket(s) == IF s.rs \in {"CONNECTING", "OPEN"} THEN [s EXCEPT !.rs = "CLOSING"] ELSE s

\* the delay doubled at every attempt instead of growing by the base
ReconnectDelayDoubling(n) == WS_RECONNECT_DELAY_MS * 2 ^ (n - 1)
\* const delay = WS_RECONNECT_DELAY_MS * wsReconnectAttempts (after the increment)
ReconnectDelay(n) == WS_RECONNECT_DELAY_MS * n

\* the limit counted one attempt short
CanReconnectOneShort(n) == n + 1 < WS_MAX_RECONNECT_ATTEMPTS
\* if (wsReconnectAttempts < WS_MAX_RECONNECT_ATTEMPTS)
CanReconnect(n) == n < WS_MAX_RECONNECT_ATTEMPTS
\* wsReconnectAttempts > 0 ? 'reconnecting' : 'connecting'
ConnectingState(n) == IF n > 0 THEN "reconnecting" ELSE "connecting"
AlreadyConnected(k) == wsConnection # NoSocket /\ wsConnection.rs = "OPEN" /\ wsStreamerUsername = k

(* ------------------------------- Init ---------------------------------- *)
SWInit ==
    /\ wsConnection = NoSocket
    /\ wsStreamerUsername = NoKey
    /\ wsReconnectAttempts = 0
    /\ heartbeatInterval = FALSE
    /\ reconnectTimeoutId = FALSE
    /\ timerPending = FALSE
    /\ timerDelay = NoDelay
    /\ currentConnectionState = "disconnected"
    /\ lastReconnectIn = NoDelay
    /\ bcastParity = 0
    /\ orphans = [x \in OrphanKinds |-> 0]
    /\ calls = [k \in Keys |-> 0]
    /\ failRun = -1

\* the page right after initialize() ran with the extension enabled
PageInit ==
    /\ pageLoc \in Locations
    /\ lastUrl = pageLoc
    /\ hostChat \in HostStates
    /\ containers = <<>>
    /\ hideStyle = FALSE
    /\ mutationPending = "none"
    /\ reinitTimeout = FALSE
    /\ loadTimer = TRUE
    /\ urlTimers = 0
    /\ inits = [x \in InitKinds |-> 0]
    /\ globalDetector = TRUE
    /\ observers = TRUE
    /\ extensionEnabled = TRUE
    /\ extMsg = "none"
    /\ reloadPending = FALSE
    /\ envBudget = MaxEnv
    /\ scenario = "none"
    /\ resetFrom = 0
    /\ tabMounted = [t \in Tabs |-> FALSE]
    /\ relayQueue = <<>>
    /\ tabLast = [t \in Tabs |-> NoFrame]

\* emoteCache and cacheTimestamps are empty Maps when the module loads
EmoteInit ==
    /\ clock = 0
    /\ ticks = 0
    /\ cacheTimestamps = [ch \in Keys |-> NoStamp]
    /\ emoteCalls = <<>>
    /\ fetchedAt = [ch \in Keys |-> NoStamp]
    /\ lastCall = NoCall

TimerInit == strayTimers = 0 /\ replacedTimer = FALSE

FwdInit ==
    /\ inbound = <<>>
    /\ fwdQueue = <<>>
    /\ tabLog = [t \in Tabs |-> <<>>]
    /\ tabJoined = [t \in Tabs |-> 0]

BeatInit == strayIntervals = 0

\* a YouTube watch page before the live chat frame is stamped
DomInit ==
    /\ hideRules = 0
    /\ ytChat = [n \in YtNodes |-> IF n = "container" THEN "shown" ELSE "absent"]
    /\ hideCalls = 0

ListInit == arrived = 0 /\ messages = <<>> /\ enriching = {}

CacheKeys == {"global", "channel"}

BadgeInit ==
    /\ badgeCache = [k \in CacheKeys |-> "none"]
    /\ inflightRequests = [k \in CacheKeys |-> FALSE]
    /\ netRequests = [k \in CacheKeys |-> 0]
    /\ awaiters = [k \in CacheKeys |-> 0]
    /\ resolving = [k \in CacheKeys |-> "none"]
    /\ badgeCalls = [k \in CacheKeys |-> 0]

MoreInit == DomInit /\ ListInit /\ BadgeInit

AuxInit == EmoteInit /\ TimerInit /\ FwdInit /\ BeatInit /\ MoreInit

\* no overlay yet, no broadcast under way
NoStatus == [state |-> "none", attempts |-> 0, maxAttempts |-> 0]

\* useState<ConnectionStatus>({ state: 'connecting' }): no counts yet
InitialStatus == [state |-> "connecting", attempts |-> 0, maxAttempts |-> 0]

UiInit == stateQueue = <<>> /\ uiStatus = NoStatus

Init == SWInit /\ swInbox = <<>> /\ PageInit /\ AuxInit /\ UiInit

(* ------------------- connectWebSocket, piece by piece ------------------ *)
\* broadcastConnectionState(state, {reconnectIn})
Broadcast(st, delay) ==
    /\ currentConnectionState' = st
    /\ lastReconnectIn' = delay
    /\ bcastParity' = 1 - bcastParity

\* the already-connected test, the close of the previous socket, then the awaits.  Nothing
\* between the two awaits (getApiGatewayUrl, getViewerToken) reads or writes
\* the worker's state, so the call has one suspension point.
ConnectBegin(k) ==
    IF AlreadyConnected(k)
    THEN UNCHANGED <<wsConnection, calls>>
    ELSE /\ wsConnection' = CloseSocket(wsConnection)
         /\ calls' = AddTo(calls, k)

\* a fresh session: nothing exists and nothing is under way
Fresh == /\ wsConnection = NoSocket
         /\ OrphanCount = 0
         /\ CallCount = 0
         /\ wsReconnectAttempts = 0
         /\ ~timerPending

\* chrome.runtime.onMessage, case CONNECT_WEBSOCKET
OnConnectMessage(k) ==
    /\ CallCount < MaxCalls
    /\ ConnectBegin(k)
    /\ failRun' = IF Fresh THEN 0 ELSE -1
    /\ UNCHANGED <<wsStreamerUsername, wsReconnectAttempts, heartbeatInterval,
                   reconnectTimeoutId, timerPending, timerDelay, currentConnectionState,
                   lastReconnectIn, bcastParity, orphans>>

\* after the awaits: broadcast connecting/reconnecting, new WebSocket, handlers
ConnectOpenTransport(k) ==
    /\ calls[k] > 0
    /\ LiveCount < MaxSockets
    /\ calls' = RemoveFrom(calls, k)
    /\ Broadcast(ConnectingState(wsReconnectAttempts), NoDelay)
    /\ orphans' = IF IsLive(wsConnection)
                  THEN AddTo(orphans, <<wsConnection.key, wsConnection.rs>>)
                  ELSE orphans
    /\ wsConnection' = [key |-> k, rs |-> "CONNECTING"]
    /\ wsStreamerUsername' = k
    /\ UNCHANGED <<wsReconnectAttempts, heartbeatInterval, reconnectTimeoutId,
                   timerPending, timerDelay, failRun, swInbox, pageVars, obsVars, relayVars, auxVars>>

(* --------------------------- socket handlers --------------------------- *)
\* an onopen that leaves the attempt counter as it is
OnOpenKeepsCounter ==
    /\ wsReconnectAttempts' = wsReconnectAttempts
    /\ heartbeatInterval' = TRUE
    /\ Broadcast("connected", NoDelay)
    /\ failRun' = -1
    /\ UNCHANGED <<wsStreamerUsername, reconnectTimeoutId, timerPending, timerDelay,
                   calls, swInbox, pageVars, scenario, relayVars, emoteVars, timerVars, fwdVars, moreVars>>
\* wsConnection.onopen; like onclose it only reads and writes the globals
OnOpenEffects ==
    /\ wsReconnectAttempts' = 0
    /\ heartbeatInterval' = TRUE
    /\ Broadcast("connected", NoDelay)
    /\ failRun' = -1
    /\ UNCHANGED <<wsStreamerUsername, reconnectTimeoutId, timerPending, timerDelay,
                   calls, swInbox, pageVars, scenario, relayVars, emoteVars, timerVars, fwdVars, moreVars>>

OnOpen == OnOpenEffects /\ UNCHANGED <<resetFrom, beatVars>>

\* the same handler, with the counter value it overwrites kept as an observation
OnOpenRecorded == OnOpenEffects /\ resetFrom' = wsReconnectAttempts /\ UNCHANGED beatVars

\* the same handler with its intervals counted: startWebSocketHeartbeat
\* assigns heartbeatInterval without clearing the interval it referred to
OnOpenCounted ==
    /\ strayIntervals < MaxStrayIntervals
    /\ OnOpenEffects
    /\ strayIntervals' = IF heartbeatInterval THEN strayIntervals + 1 ELSE strayIntervals
    /\ UNCHANGED resetFrom

\* an onclose that never finds a timeout to cancel
ClearsNothing == FALSE
\* onclose: if (reconnectTimeoutId) clearTimeout(reconnectTimeoutId)
ClearsPrevious == reconnectTimeoutId

\* wsConnection.onclose
OnCloseEffects ==
    /\ heartbeatInterval' = FALSE
    /\ IF CanReconnect(wsReconnectAttempts)
       THEN /\ wsReconnectAttempts' = wsReconnectAttempts + 1
            /\ Broadcast("reconnecting", ReconnectDelay(wsReconnectAttempts + 1))
            /\ reconnectTimeoutId' = TRUE
            /\ timerPending' = TRUE
            /\ timerDelay' = ReconnectDelay(wsReconnectAttempts + 1)
       ELSE /\ wsReconnectAttempts' = wsReconnectAttempts
            /\ Broadcast("failed", NoDelay)
            /\ reconnectTimeoutId' = FALSE
            /\ timerPending' = FALSE
            /\ timerDelay' = NoDelay
    /\ UNCHANGED <<wsStreamerUsername, calls, swInbox, pageVars, obsVars, relayVars, emoteVars, fwdVars, beatVars, moreVars>>

OnClose == OnCloseEffects /\ UNCHANGED timerVars

\* the same handler with its timeouts counted: a pending timeout that the
\* handler does not cancel stays pending next to the one it arms
OnCloseCounted ==
    /\ OnCloseEffects
    /\ strayTimers' = IF timerPending /\ ~ClearsPrevious THEN strayTimers + 1 ELSE strayTimers
    /\ replacedTimer' = (timerPending /\ ClearsPrevious /\ CanReconnect(wsReconnectAttempts))

\* the handshake of the referenced socket succeeds
TransportOpen ==
    /\ wsConnection.rs = "CONNECTING"
    /\ wsConnection' = [wsConnection EXCEPT !.rs = "OPEN"]
    /\ OnOpen
    /\ UNCHANGED orphans

\* the handshake of a socket the worker no longer references succeeds
OrphanOpen(k) ==
    /\ orphans[<<k, "CONNECTING">>] > 0
    /\ orphans' = AddTo(RemoveFrom(orphans, <<k, "CONNECTING">>), <<k, "OPEN">>)
    /\ OnOpen
    /\ UNCHANGED wsConnection

\* the two open events with the observation of the overwritten counter
TransportOpenRecorded ==
    /\ wsConnection.rs = "CONNECTING"
    /\ wsConnection' = [wsConnection EXCEPT !.rs = "OPEN"]
    /\ OnOpenRecorded
    /\ UNCHANGED orphans

OrphanOpenRecorded(k) ==
    /\ orphans[<<k, "CONNECTING">>] > 0
    /\ orphans' = AddTo(RemoveFrom(orphans, <<k, "CONNECTING">>), <<k, "OPEN">>)
    /\ OnOpenRecorded
    /\ UNCHANGED wsConnection

\* the two open events with the intervals counted
TransportOpenCounted ==
    /\ wsConnection.rs = "CONNECTING"
    /\ wsConnection' = [wsConnection EXCEPT !.rs = "OPEN"]
    /\ OnOpenCounted
    /\ UNCHANGED orphans

OrphanOpenCounted(k) ==
    /\ orphans[<<k, "CONNECTING">>] > 0
    /\ orphans' = AddTo(RemoveFrom(orphans, <<k, "CONNECTING">>), <<k, "OPEN">>)
    /\ OnOpenCounted
    /\ UNCHANGED wsConnection

\* the referenced socket delivers its close event: a drop, a failed
\* handshake, or the end of a close() the worker asked for
TransportClose ==
    /\ IsLive(wsConnection)
    /\ wsConnection' = [wsConnection EXCEPT !.rs = "CLOSED"]
    /\ OnClose
    /\ failRun' = IF failRun >= 0 /\ wsConnection.rs = "CONNECTING" THEN failRun + 1 ELSE -1
    /\ UNCHANGED orphans

\* an unreferenced socket delivers its close event
OrphanClose(k, rs) ==
    /\ orphans[<<k, rs>>] > 0
    /\ orphans' = RemoveFrom(orphans, <<k, rs>>)
    /\ OnClose
    /\ failRun' = -1
    /\ UNCHANGED wsConnection

\* the two close events with the timeouts counted
TransportCloseCounted ==
    /\ IsLive(wsConnection)
    /\ wsConnection' = [wsConnection EXCEPT !.rs = "CLOSED"]
    /\ OnCloseCounted
    /\ failRun' = IF failRun >= 0 /\ wsConnection.rs = "CONNECTING" THEN failRun + 1 ELSE -1
    /\ UNCHANGED orphans

OrphanCloseCounted(k, rs) ==
    /\ orphans[<<k, rs>>] > 0
    /\ orphans' = RemoveFrom(orphans, <<k, rs>>)
    /\ OnCloseCounted
    /\ failRun' = -1
    /\ UNCHANGED wsConnection

\* the reconnect timeout fires
ReconnectTimerFires ==
    /\ timerPending
    /\ timerPending' = FALSE
    /\ timerDelay' = NoDelay
    /\ IF wsStreamerUsername # NoKey
       THEN /\ CallCount < MaxCalls
            /\ ConnectBegin(wsStreamerUsername)
       ELSE UNCHANGED <<wsConnection, calls>>
    /\ UNCHANGED <<wsStreamerUsername, wsReconnectAttempts, heartbeatInterval,
                   reconnectTimeoutId, currentConnectionState, lastReconnectIn,
                   bcastParity, orphans, failRun, swInbox, pageVars, obsVars, relayVars, auxVars>>

(* -------------------------- disconnectWebSocket ------------------------ *)
\* chrome.runtime.onMessage, case DISCONNECT_WEBSOCKET
OnDisconnectMessage ==
    /\ IF wsConnection # NoSocket
       THEN /\ orphans' = IF IsLive(wsConnection)
                          THEN AddTo(orphans, <<wsConnection.key, "CLOSING">>)
                          ELSE orphans
            /\ wsConnection' = NoSocket
            /\ wsStreamerUsername' = NoKey
       ELSE UNCHANGED <<orphans, wsConnection, wsStreamerUsername>>
    /\ heartbeatInterval' = FALSE
    /\ reconnectTimeoutId' = FALSE
    /\ timerPending' = FALSE
    /\ timerDelay' = NoDelay
    /\ wsReconnectAttempts' = 0
    /\ Broadcast("disconnected", NoDelay)
    /\ failRun' = -1
    /\ UNCHANGED calls

(* ------------------ requests from any tab (environment) ---------------- *)
TabConnect(k) == OnConnectMessage(k) /\ UNCHANGED <<swInbox, pageVars, envBudget, obsVars, relayVars, auxVars>>

TabDisconnect == OnDisconnectMessage /\ UNCHANGED <<swInbox, pageVars, envBudget, obsVars, relayVars, auxVars>>

(* --------------------------- the host page ----------------------------- *)
\* nothing of the reconciliation is under way: no init() call suspended, no
\* timeout pending, no mutation record queued, no request on its way to the
\* worker or suspended in it, no toggle in progress
Quiet ==
    /\ InitCount = 0
    /\ ~reinitTimeout /\ urlTimers = 0 /\ ~loadTimer
    /\ mutationPending = "none"
    /\ swInbox = <<>>
    /\ CallCount = 0
    /\ extMsg = "none" /\ ~reloadPending

\* extractStreamerUsername(): the first path segment unless it is excluded
ExcludedPages == {"directory", "downloads", "jobs", "turbo", "settings", "subscriptions",
                  "inventory", "wallet", "drops"}
\* String.toLowerCase on the first path segments of AllLocations
ToLowerCase(seg) == IF seg = "Directory" THEN "directory" ELSE seg
\* excluded.includes(username) without the toLowerCase()
ResolveChannelCaseSensitive(loc) ==
    IF loc = "" THEN NoKey
    ELSE IF loc \in ExcludedPages THEN NoKey
    ELSE loc
ResolveChannel(loc) ==
    IF loc = "" THEN NoKey
    ELSE IF ToLowerCase(loc) \in ExcludedPages THEN NoKey
    ELSE loc

\* the channel lookup (GET_STREAMER_INFO); STREAMER_NOT_FOUND gives null
\* a lookup that answers every name with a streamer record
StreamerExistsAnyName(u) == u \in Usernames
StreamerExists(u) == u \in Configured

RightColumnExists == hostChat # "none"
NativeExists == hostChat = "full"

\* a DOM change is seen by the observers only when initialize() installed them
Queue(kind) == IF observers THEN kind ELSE "none"

\* an event of the page's environment (host page, user, network drop)
EnvActs == envBudget > 0 /\ envBudget' = envBudget - 1

\* the host page re-renders its chat column
HostMutation(h) ==
    /\ EnvActs
    /\ mutationPending = "none"
    /\ hostChat' = h
    /\ mutationPending' = Queue("body")
    /\ scenario' = "none"
    /\ UNCHANGED <<resetFrom, relayVars, auxVars, swVars, swInbox, pageLoc, lastUrl, containers, hideStyle, reinitTimeout,
                   loadTimer, urlTimers, inits, globalDetector, observers, extensionEnabled,
                   extMsg, reloadPending>>

\* the host page removes the overlay container from the document
HostRemovesOverlay ==
    /\ EnvActs
    /\ mutationPending = "none"
    /\ containers # <<>>
    /\ containers' = <<>>
    /\ mutationPending' = Queue("body")
    /\ scenario' = IF /\ Quiet /\ OrphanCount = 0
                      /\ containers = <<pageLoc>>
                      /\ wsStreamerUsername = pageLoc
                   THEN "removed" ELSE "none"
    /\ UNCHANGED <<resetFrom, relayVars, auxVars, swVars, swInbox, pageLoc, lastUrl, hostChat, hideStyle, reinitTimeout,
                   loadTimer, urlTimers, inits, globalDetector, observers, extensionEnabled,
                   extMsg, reloadPending>>

\* client-side navigation: the location changes and the page re-renders
Navigate(l) ==
    /\ EnvActs
    /\ mutationPending = "none"
    /\ l # pageLoc
    /\ urlTimers < MaxUrlTimers
    /\ pageLoc' = l
    /\ mutationPending' = Queue("body")
    /\ scenario' = IF /\ Quiet /\ OrphanCount = 0
                      /\ pageLoc = "alpha" /\ l = "beta"
                      /\ containers = <<"alpha">>
                      /\ wsConnection = [key |-> "alpha", rs |-> "OPEN"]
                      /\ currentConnectionState = "connected"
                   THEN "switch"
                   ELSE IF /\ Quiet /\ OrphanCount = 0
                           /\ containers = <<pageLoc>>
                           /\ wsConnection = [key |-> pageLoc, rs |-> "OPEN"]
                           /\ currentConnectionState = "connected"
                           /\ l \in {"", "directory", "Directory"}
                   THEN "left"
                   ELSE "none"
    /\ UNCHANGED <<resetFrom, relayVars, auxVars, swVars, swInbox, lastUrl, hostChat, containers, hideStyle, reinitTimeout,
                   loadTimer, urlTimers, inits, globalDetector, observers, extensionEnabled,
                   extMsg, reloadPending>>

(* ----------------- setupMutationObserver / setupUrlWatcher ------------- *)
\* a cleanup that leaves the last container in document order
KeepLast(cs) == IF Len(cs) > 1 THEN <<cs[Len(cs)]>> ELSE cs
\* what the duplicate cleanup leaves: the first container in document order
KeepFirst(cs) == IF Len(cs) > 1 THEN <<Head(cs)>> ELSE cs

\* Both observers are notified in one microtask checkpoint, the body
\* observer (registered first) before the URL watcher.  The body observer
\* only sees changes below document.body.
ObserversFire ==
    /\ mutationPending # "none"
    /\ LET body == mutationPending = "body"
           kept == IF body THEN KeepFirst(containers) ELSE containers
           allchatExists == kept # <<>>
           reinject == body /\ ~allchatExists /\ NativeExists
           rehide == body /\ allchatExists /\ NativeExists /\ RightColumnExists
           urlChanged == pageLoc # lastUrl
       IN /\ containers' = kept
          /\ reinitTimeout' = (reinitTimeout \/ reinject)
          /\ hideStyle' = (hideStyle \/ rehide)
          /\ lastUrl' = pageLoc
          /\ urlTimers' = IF urlChanged THEN urlTimers + 1 ELSE urlTimers
          /\ mutationPending' = IF kept # containers THEN "body"
                                ELSE IF rehide /\ ~hideStyle THEN "head"
                                ELSE "none"
    /\ UNCHANGED <<swVars, swInbox, pageLoc, hostChat, loadTimer, inits, globalDetector,
                   observers, extensionEnabled, extMsg, reloadPending, envBudget, obsVars, relayVars, auxVars>>

(* ------------------------- PlatformDetector.init ----------------------- *)
\* init() up to its first await: resolve the username, start the lookup
InitBegin(origin) ==
    IF ResolveChannel(pageLoc) = NoKey
    THEN UNCHANGED inits
    ELSE inits' = AddTo(inits, <<ResolveChannel(pageLoc), origin>>)

\* the timeout armed by initialize() fires: globalDetector!.init()
LoadTimerFires ==
    /\ loadTimer
    /\ mutationPending = "none"
    /\ InitCount < MaxInits
    /\ loadTimer' = FALSE
    /\ IF globalDetector THEN InitBegin("nav") ELSE UNCHANGED inits
    /\ UNCHANGED <<swVars, swInbox, pageLoc, lastUrl, hostChat, containers, hideStyle,
                   mutationPending, reinitTimeout, urlTimers, globalDetector, observers,
                   extensionEnabled, extMsg, reloadPending, envBudget, obsVars, relayVars, auxVars>>

\* a timeout armed by the URL watcher fires: detector.init()
UrlTimerFires ==
    /\ urlTimers > 0
    /\ mutationPending = "none"
    /\ InitCount < MaxInits
    /\ urlTimers' = urlTimers - 1
    /\ InitBegin("nav")
    /\ UNCHANGED <<swVars, swInbox, pageLoc, lastUrl, hostChat, containers, hideStyle,
                   mutationPending, reinitTimeout, loadTimer, globalDetector, observers,
                   extensionEnabled, extMsg, reloadPending, envBudget, obsVars, relayVars, auxVars>>

\* the observer's debounced timeout fires: detector.init()
ReinitTimerFires ==
    /\ reinitTimeout
    /\ mutationPending = "none"
    /\ InitCount < MaxInits
    /\ reinitTimeout' = FALSE
    /\ InitBegin("reinit")
    /\ UNCHANGED <<swVars, swInbox, pageLoc, lastUrl, hostChat, containers, hideStyle,
                   mutationPending, loadTimer, urlTimers, globalDetector, observers,
                   extensionEnabled, extMsg, reloadPending, envBudget, obsVars, relayVars, auxVars>>

\* checkStreamerExists returned: the rest of init() up to the
\* CONNECT_WEBSOCKET request (nothing follows the await of its response)
InitContinue(u, origin) ==
    /\ inits[<<u, origin>>] > 0
    /\ mutationPending = "none"
    /\ inits' = RemoveFrom(inits, <<u, origin>>)
    /\ IF ~StreamerExists(u)
       THEN \* showNotConfiguredBadge appends the badge to document.body
            /\ mutationPending' = Queue("body")
            /\ UNCHANGED <<hideStyle, containers, swInbox>>
       ELSE /\ hideStyle' = TRUE
            /\ IF ~RightColumnExists
               THEN \* createInjectionPoint returned null
                    /\ mutationPending' = IF hideStyle THEN "none" ELSE Queue("head")
                    /\ UNCHANGED <<containers, swInbox>>
               ELSE /\ Len(swInbox) < MaxInbox
                    /\ containers' = Append(containers, u)
                    /\ mutationPending' = Queue("body")
                    /\ swInbox' = Append(swInbox, [type |-> "CONNECT_WEBSOCKET",
                                                   key |-> u, origin |-> origin])
    /\ UNCHANGED <<swVars, pageLoc, lastUrl, hostChat, reinitTimeout, loadTimer, urlTimers,
                   globalDetector, observers, extensionEnabled, extMsg, reloadPending, envBudget, obsVars, relayVars, auxVars>>

\* the worker receives the page's CONNECT_WEBSOCKET
WorkerReceivesConnect ==
    /\ swInbox # <<>>
    /\ OnConnectMessage(Head(swInbox).key)
    /\ swInbox' = Tail(swInbox)
    /\ UNCHANGED <<pageVars, envBudget, obsVars, relayVars, auxVars>>

(* ------------------------ enable / disable toggle ---------------------- *)
\* popup handleToggle: store the flag, notify the tab, then reload it
PopupToggle ==
    /\ EnvActs
    /\ extMsg = "none"
    /\ ~reloadPending
    /\ extensionEnabled' = ~extensionEnabled
    /\ extMsg' = IF extensionEnabled THEN "off" ELSE "on"
    /\ reloadPending' = TRUE
    /\ scenario' = "none"
    /\ UNCHANGED <<resetFrom, relayVars, auxVars, swVars, swInbox, pageLoc, lastUrl, hostChat, containers, hideStyle,
                   mutationPending, reinitTimeout, loadTimer, urlTimers, inits,
                   globalDetector, observers>>

\* the relay listener gets EXTENSION_STATE_CHANGED: handleExtensionStateChange
HandleExtensionStateChange ==
    /\ extMsg # "none"
    /\ mutationPending = "none"
    /\ extMsg' = "none"
    /\ scenario' = IF /\ observers /\ extMsg = "off" /\ globalDetector
                      /\ currentConnectionState = "connected"
                   THEN "disabled" ELSE scenario
    /\ IF ~observers
       THEN \* initialize() returned before installing any listener
            UNCHANGED <<containers, hideStyle, globalDetector, mutationPending, reloadPending>>
       ELSE IF extMsg = "on"
       THEN \* window.location.reload() when globalDetector is null
            /\ reloadPending' = (reloadPending \/ ~globalDetector)
            /\ UNCHANGED <<containers, hideStyle, globalDetector, mutationPending>>
       ELSE IF globalDetector
       THEN \* removeAllChatUI(), showNativeChat(), globalDetector = null
            /\ containers' = IF containers = <<>> THEN <<>> ELSE Tail(containers)
            /\ hideStyle' = FALSE
            /\ globalDetector' = FALSE
            /\ mutationPending' = IF containers # <<>> THEN "body"
                                  ELSE IF hideStyle THEN "head" ELSE "none"
            /\ UNCHANGED reloadPending
       ELSE UNCHANGED <<containers, hideStyle, globalDetector, mutationPending, reloadPending>>
    /\ UNCHANGED <<resetFrom, relayVars, auxVars, swVars, swInbox, pageLoc, lastUrl, hostChat, reinitTimeout,
                   loadTimer, urlTimers, inits, observers, extensionEnabled, envBudget>>

\* the tab reloads: the document and the content script start over, and
\* initialize() reads settings.extensionEnabled
PageReload ==
    /\ reloadPending
    /\ reloadPending' = FALSE
    /\ extMsg' = "none"     \* a signal not yet delivered finds no listener that acts on it
    /\ scenario' = IF scenario = "disabled" THEN scenario ELSE "none"
    /\ lastUrl' = pageLoc
    /\ containers' = <<>>
    /\ hideStyle' = FALSE
    /\ mutationPending' = "none"
    /\ reinitTimeout' = FALSE
    /\ urlTimers' = 0
    /\ inits' = [x \in InitKinds |-> 0]
    /\ globalDetector' = extensionEnabled
    /\ observers' = extensionEnabled
    /\ loadTimer' = extensionEnabled
    /\ UNCHANGED <<resetFrom, relayVars, auxVars, swVars, swInbox, pageLoc, hostChat, extensionEnabled, envBudget>>

(* ---- the worker alone, driven by requests from any tab ---- *)
InitSW == Init /\ pageLoc = "alpha" /\ hostChat = "full"

NextSW ==
    \/ \E k \in Keys : TabConnect(k) /\ UNCHANGED uiVars
    \/ TabDisconnect /\ UNCHANGED uiVars
    \/ \E k \in Keys : ConnectOpenTransport(k) /\ UNCHANGED envBudget /\ UNCHANGED uiVars
    \/ TransportOpen /\ UNCHANGED envBudget /\ UNCHANGED uiVars
    \/ \E k \in Keys : OrphanOpen(k) /\ UNCHANGED envBudget /\ UNCHANGED uiVars
    \/ TransportClose /\ UNCHANGED envBudget /\ UNCHANGED uiVars
    \/ \E k \in Keys, rs \in LiveRS : OrphanClose(k, rs) /\ UNCHANGED envBudget /\ UNCHANGED uiVars
    \/ ReconnectTimerFires /\ UNCHANGED envBudget /\ UNCHANGED uiVars

SpecSW == InitSW /\ [][NextSW]_vars

(* ---- the worker alone, with what its scheduling guarantees: an armed
        timeout fires, a suspended connectWebSocket call resumes, and a
        socket that is no longer referenced delivers its close event ---- *)
TimerStep == ReconnectTimerFires /\ UNCHANGED envBudget /\ UNCHANGED uiVars
ResumeStep(k) == ConnectOpenTransport(k) /\ UNCHANGED envBudget /\ UNCHANGED uiVars
OrphanCloseStep(k, rs) == OrphanClose(k, rs) /\ UNCHANGED envBudget /\ UNCHANGED uiVars

SpecSWFair ==
    /\ InitSW /\ [][NextSW]_vars
    /\ SF_vars(TimerStep)
    /\ \A k \in Keys : SF_vars(ResumeStep(k))
    /\ \A k \in Keys, rs \in LiveRS : WF_vars(OrphanCloseStep(k, rs))

(* ---- the worker alone, every open event observed ---- *)
NextRecover ==
    \/ \E k \in Keys : TabConnect(k) /\ UNCHANGED uiVars
    \/ TabDisconnect /\ UNCHANGED uiVars
    \/ \E k \in Keys : ConnectOpenTransport(k) /\ UNCHANGED envBudget /\ UNCHANGED uiVars
    \/ TransportOpenRecorded /\ UNCHANGED envBudget /\ UNCHANGED uiVars
    \/ \E k \in Keys : OrphanOpenRecorded(k) /\ UNCHANGED envBudget /\ UNCHANGED uiVars
    \/ TransportClose /\ UNCHANGED envBudget /\ UNCHANGED uiVars
    \/ \E k \in Keys, rs \in LiveRS : OrphanClose(k, rs) /\ UNCHANGED envBudget /\ UNCHANGED uiVars
    \/ ReconnectTimerFires /\ UNCHANGED envBudget /\ UNCHANGED uiVars

SpecRecover == InitSW /\ [][NextRecover]_vars

(* ---- the worker alone, its reconnect timeouts counted ---- *)
NextTimers ==
    \/ \E k \in Keys : TabConnect(k) /\ UNCHANGED uiVars
    \/ TabDisconnect /\ UNCHANGED uiVars
    \/ \E k \in Keys : ConnectOpenTransport(k) /\ UNCHANGED envBudget /\ UNCHANGED uiVars
    \/ TransportOpen /\ UNCHANGED envBudget /\ UNCHANGED uiVars
    \/ \E k \in Keys : OrphanOpen(k) /\ UNCHANGED envBudget /\ UNCHANGED uiVars
    \/ TransportCloseCounted /\ UNCHANGED envBudget /\ UNCHANGED uiVars
    \/ \E k \in Keys, rs \in LiveRS : OrphanCloseCounted(k, rs) /\ UNCHANGED envBudget /\ UNCHANGED uiVars
    \/ ReconnectTimerFires /\ UNCHANGED envBudget /\ UNCHANGED uiVars

SpecTimers == InitSW /\ [][NextTimers]_vars

(* ---- the worker alone, its heartbeat intervals counted ---- *)
NextBeats ==
    \/ \E k \in Keys : TabConnect(k) /\ UNCHANGED uiVars
    \/ TabDisconnect /\ UNCHANGED uiVars
    \/ \E k \in Keys : ConnectOpenTransport(k) /\ UNCHANGED envBudget /\ UNCHANGED uiVars
    \/ TransportOpenCounted /\ UNCHANGED envBudget /\ UNCHANGED uiVars
    \/ \E k \in Keys : OrphanOpenCounted(k) /\ UNCHANGED envBudget /\ UNCHANGED uiVars
    \/ TransportClose /\ UNCHANGED envBudget /\ UNCHANGED uiVars
    \/ \E k \in Keys, rs \in LiveRS : OrphanClose(k, rs) /\ UNCHANGED envBudget /\ UNCHANGED uiVars
    \/ ReconnectTimerFires /\ UNCHANGED envBudget /\ UNCHANGED uiVars

SpecBeats == InitSW /\ [][NextBeats]_vars

(* ---- one page and the worker ---- *)
\* a close() the worker asked for completes
CloseCompletes == wsConnection.rs = "CLOSING" /\ TransportClose /\ UNCHANGED envBudget
OrphanCloseCompletes(k) == OrphanClose(k, "CLOSING") /\ UNCHANGED envBudget
\* the network drops a transport or fails its handshake
NetworkDrop == wsConnection.rs \in {"CONNECTING", "OPEN"} /\ EnvActs /\ TransportClose
OrphanDrop(k, rs) == rs # "CLOSING" /\ EnvActs /\ OrphanClose(k, rs)

\* runs are followed while the reconnect counter is within MaxPagedAttempts
WithinBounds == wsReconnectAttempts <= MaxPagedAttempts

Next ==
    \/ \E h \in HostStates : WithinBounds /\ HostMutation(h) /\ UNCHANGED uiVars
    \/ WithinBounds /\ HostRemovesOverlay /\ UNCHANGED uiVars
    \/ \E l \in Locations : WithinBounds /\ Navigate(l) /\ UNCHANGED uiVars
    \/ WithinBounds /\ ObserversFire /\ UNCHANGED uiVars
    \/ WithinBounds /\ LoadTimerFires /\ UNCHANGED uiVars
    \/ WithinBounds /\ UrlTimerFires /\ UNCHANGED uiVars
    \/ WithinBounds /\ ReinitTimerFires /\ UNCHANGED uiVars
    \/ \E u \in Usernames, o \in InitOrigins : WithinBounds /\ InitContinue(u, o) /\ UNCHANGED uiVars
    \/ WithinBounds /\ PopupToggle /\ UNCHANGED uiVars
    \/ WithinBounds /\ HandleExtensionStateChange /\ UNCHANGED uiVars
    \/ WithinBounds /\ PageReload /\ UNCHANGED uiVars
    \/ WithinBounds /\ WorkerReceivesConnect /\ UNCHANGED uiVars
    \/ \E k \in Keys : WithinBounds /\ ConnectOpenTransport(k) /\ UNCHANGED envBudget /\ UNCHANGED uiVars
    \/ WithinBounds /\ TransportOpen /\ UNCHANGED envBudget /\ UNCHANGED uiVars
    \/ \E k \in Keys : WithinBounds /\ OrphanOpen(k) /\ UNCHANGED envBudget /\ UNCHANGED uiVars
    \/ WithinBounds /\ ReconnectTimerFires /\ UNCHANGED envBudget /\ UNCHANGED uiVars
    \/ WithinBounds /\ CloseCompletes /\ UNCHANGED uiVars
    \/ \E k \in Keys : WithinBounds /\ OrphanCloseCompletes(k) /\ UNCHANGED uiVars
    \/ WithinBounds /\ NetworkDrop /\ UNCHANGED uiVars
    \/ \E k \in Keys, rs \in LiveRS : WithinBounds /\ OrphanDrop(k, rs) /\ UNCHANGED uiVars

Spec == Init /\ [][Next]_vars

(* ---- two tabs on different channels, the worker, and the frames it relays ---- *)
\* a JSON.parse that never throws
ParsesAnything(f) == TRUE
\* JSON.parse in onmessage
Parses(f) == f # "unparsable"

\* the page of tab t runs its pass: injectAllChatUI, then connectWebSocket
\* sends CONNECT_WEBSOCKET for the tab's channel
TabMounts(t) ==
    /\ ~tabMounted[t]
    /\ tabMounted' = [tabMounted EXCEPT ![t] = TRUE]
    /\ OnConnectMessage(TabKey[t])
    /\ UNCHANGED <<swInbox, pageVars, envBudget, obsVars, relayQueue, tabLast, auxVars>>

\* wsConnection.onmessage of an open socket for key k, then
\* handleWebSocketMessage up to chrome.tabs.query
OnMessage(k, f) ==
    /\ \/ wsConnection = [key |-> k, rs |-> "OPEN"]
       \/ orphans[<<k, "OPEN">>] > 0
    /\ IF Parses(f)
       THEN /\ Len(relayQueue) < MaxRelay
            /\ relayQueue' = Append(relayQueue, [key |-> k, frame |-> f])
       ELSE UNCHANGED relayQueue
    /\ UNCHANGED <<swVars, swInbox, pageVars, envBudget, obsVars, tabMounted, tabLast, auxVars>>

\* the chrome.tabs.query({}) callback: chrome.tabs.sendMessage to every tab;
\* each tab's relay listener posts the message to every overlay iframe it has
TabsQueryReturns ==
    /\ relayQueue # <<>>
    /\ relayQueue' = Tail(relayQueue)
    /\ tabLast' = [t \in Tabs |-> IF tabMounted[t] THEN Head(relayQueue) ELSE tabLast[t]]
    /\ UNCHANGED <<swVars, swInbox, pageVars, envBudget, obsVars, tabMounted, auxVars>>

NextRelay ==
    \/ \E t \in Tabs : WithinBounds /\ TabMounts(t) /\ UNCHANGED uiVars
    \/ \E k \in Keys : WithinBounds /\ ConnectOpenTransport(k) /\ UNCHANGED envBudget /\ UNCHANGED uiVars
    \/ WithinBounds /\ TransportOpen /\ UNCHANGED envBudget /\ UNCHANGED uiVars
    \/ \E k \in Keys : WithinBounds /\ OrphanOpen(k) /\ UNCHANGED envBudget /\ UNCHANGED uiVars
    \/ WithinBounds /\ TransportClose /\ UNCHANGED envBudget /\ UNCHANGED uiVars
    \/ \E k \in Keys, rs \in LiveRS : WithinBounds /\ OrphanClose(k, rs) /\ UNCHANGED envBudget /\ UNCHANGED uiVars
    \/ WithinBounds /\ ReconnectTimerFires /\ UNCHANGED envBudget /\ UNCHANGED uiVars
    \/ \E k \in Keys, f \in FrameTypes : WithinBounds /\ OnMessage(k, f) /\ UNCHANGED uiVars
    \/ WithinBounds /\ TabsQueryReturns /\ UNCHANGED uiVars

SpecRelay == InitSW /\ [][NextRelay]_vars

(* ---- the worker, two tabs and the frames forwarded to their overlays ---- *)
\* JSON.parse(event.data): the message object of a frame (the socket it came
\* from is not part of it)
JsonParse(raw) == [type |-> raw.type, id |-> raw.id]

\* { type: 'WS_MESSAGE', data: message }
WsMessage(message) == [type |-> "WS_MESSAGE", data |-> message]

\* the broadcast sent next, if callbacks ran last in, first out
LastQueued == fwdQueue[Len(fwdQueue)]
\* the chrome.tabs.query callbacks run in the order of their calls
NextQueued == Head(fwdQueue)

\* the queue without the broadcast just sent
QueueWithout(m) ==
    IF m = Head(fwdQueue) THEN Tail(fwdQueue) ELSE SubSeq(fwdQueue, 1, Len(fwdQueue) - 1)

\* broadcasts sent so far
SentCount == Len(SelectSeq(inbound, LAMBDA r : Parses(r.type))) - Len(fwdQueue)

\* the page of tab t runs its pass and mounts its overlay
OverlayMounts(t) ==
    /\ ~tabMounted[t]
    /\ tabMounted' = [tabMounted EXCEPT ![t] = TRUE]
    /\ tabJoined' = [tabJoined EXCEPT ![t] = SentCount]
    /\ OnConnectMessage(TabKey[t])
    /\ UNCHANGED <<swInbox, pageVars, envBudget, obsVars, relayQueue, tabLast,
                   emoteVars, timerVars, beatVars, moreVars, inbound, fwdQueue, tabLog>>

\* wsConnection.onmessage of an open socket for key k: JSON.parse, then
\* handleWebSocketMessage up to chrome.tabs.query; a frame that does not
\* parse is logged and dropped
ReceiveFrame(k, ty) ==
    /\ \/ wsConnection = [key |-> k, rs |-> "OPEN"]
       \/ orphans[<<k, "OPEN">>] > 0
    /\ Len(inbound) < MaxFrames
    /\ LET raw == [key |-> k, type |-> ty, id |-> Len(inbound) + 1]
       IN /\ inbound' = Append(inbound, raw)
          /\ fwdQueue' = IF Parses(ty) THEN Append(fwdQueue, WsMessage(JsonParse(raw)))
                                       ELSE fwdQueue
    /\ UNCHANGED <<swVars, swInbox, pageVars, envBudget, obsVars, relayVars,
                   emoteVars, timerVars, beatVars, moreVars, tabLog, tabJoined>>

\* a chrome.tabs.query callback of handleWebSocketMessage: sendMessage to
\* every tab; the relay of a tab with an overlay posts the message to it,
\* and the overlay reads event.data.data
ForwardReturns ==
    /\ fwdQueue # <<>>
    /\ LET m == NextQueued
       IN /\ fwdQueue' = QueueWithout(m)
          /\ tabLog' = [t \in Tabs |-> IF tabMounted[t] THEN Append(tabLog[t], m.data)
                                                        ELSE tabLog[t]]
    /\ UNCHANGED <<swVars, swInbox, pageVars, envBudget, obsVars, relayVars,
                   emoteVars, timerVars, beatVars, moreVars, inbound, tabJoined>>

NextForward ==
    \/ \E t \in Tabs : WithinBounds /\ OverlayMounts(t) /\ UNCHANGED uiVars
    \/ \E k \in Keys : WithinBounds /\ ConnectOpenTransport(k) /\ UNCHANGED envBudget /\ UNCHANGED uiVars
    \/ WithinBounds /\ TransportOpen /\ UNCHANGED envBudget /\ UNCHANGED uiVars
    \/ \E k \in Keys : WithinBounds /\ OrphanOpen(k) /\ UNCHANGED envBudget /\ UNCHANGED uiVars
    \/ WithinBounds /\ TransportClose /\ UNCHANGED envBudget /\ UNCHANGED uiVars
    \/ \E k \in Keys, rs \in LiveRS : WithinBounds /\ OrphanClose(k, rs) /\ UNCHANGED envBudget /\ UNCHANGED uiVars
    \/ WithinBounds /\ ReconnectTimerFires /\ UNCHANGED envBudget /\ UNCHANGED uiVars
    \/ \E k \in Keys, ty \in FrameTypes \ {"pong"} : WithinBounds /\ ReceiveFrame(k, ty) /\ UNCHANGED uiVars
    \/ WithinBounds /\ ForwardReturns /\ UNCHANGED uiVars

SpecForward == InitSW /\ [][NextForward]_vars

(* ---- the worker, one overlay and the state records sent to it ---- *)
\* broadcastConnectionState up to chrome.tabs.query: a step of the worker
\* that broadcast a state leaves one more callback pending
Announce ==
    /\ Len(stateQueue) < MaxStateQueue
    /\ stateQueue' = IF bcastParity' # bcastParity
                     THEN Append(stateQueue, currentConnectionState')
                     ELSE stateQueue
    /\ UNCHANGED uiStatus

\* a pass of init() on the page: injectAllChatUI creates the iframe, whose
\* ChatContainer starts with state 'connecting', then CONNECT_WEBSOCKET
OverlayCreated(k) ==
    /\ OnConnectMessage(k)
    /\ uiStatus' = InitialStatus
    /\ UNCHANGED <<stateQueue, swInbox, pageVars, envBudget, obsVars, relayVars, auxVars>>

\* a record that counts the attempt about to be made
RecordAttemptsAhead == wsReconnectAttempts + 1
\* attempts: wsReconnectAttempts, read when the callback runs
RecordAttempts == wsReconnectAttempts

\* a chrome.tabs.query callback of broadcastConnectionState: the record is
\* built with attempts: wsReconnectAttempts as it is now, sent to the tab,
\* relayed to the overlay, and ChatContainer sets connectionStatus
DeliverState ==
    /\ stateQueue # <<>>
    /\ stateQueue' = Tail(stateQueue)
    /\ uiStatus' = IF uiStatus = NoStatus
                   THEN NoStatus
                   ELSE [state |-> Head(stateQueue), attempts |-> RecordAttempts,
                         maxAttempts |-> WS_MAX_RECONNECT_ATTEMPTS]
    /\ UNCHANGED <<swVars, swInbox, pageVars, envBudget, obsVars, relayVars, auxVars>>

OverlayResume(k) == WithinBounds /\ ConnectOpenTransport(k) /\ UNCHANGED envBudget /\ Announce
OverlayTimer == WithinBounds /\ ReconnectTimerFires /\ UNCHANGED envBudget /\ Announce

NextOverlay ==
    \/ \E k \in Keys : WithinBounds /\ OverlayCreated(k)
    \/ WithinBounds /\ TabDisconnect /\ Announce
    \/ \E k \in Keys : OverlayResume(k)
    \/ WithinBounds /\ TransportOpen /\ UNCHANGED envBudget /\ Announce
    \/ \E k \in Keys : WithinBounds /\ OrphanOpen(k) /\ UNCHANGED envBudget /\ Announce
    \/ WithinBounds /\ TransportClose /\ UNCHANGED envBudget /\ Announce
    \/ \E k \in Keys, rs \in LiveRS : WithinBounds /\ OrphanClose(k, rs) /\ UNCHANGED envBudget /\ Announce
    \/ OverlayTimer
    \/ DeliverState

SpecOverlay == InitSW /\ [][NextOverlay]_vars

\* the same with the attempt counter free to reach its maximum
NextRecords ==
    \/ \E k \in Keys : OverlayCreated(k)
    \/ TabDisconnect /\ Announce
    \/ \E k \in Keys : ConnectOpenTransport(k) /\ UNCHANGED envBudget /\ Announce
    \/ TransportOpen /\ UNCHANGED envBudget /\ Announce
    \/ \E k \in Keys : OrphanOpen(k) /\ UNCHANGED envBudget /\ Announce
    \/ TransportClose /\ UNCHANGED envBudget /\ Announce
    \/ \E k \in Keys, rs \in LiveRS : OrphanClose(k, rs) /\ UNCHANGED envBudget /\ Announce
    \/ ReconnectTimerFires /\ UNCHANGED envBudget /\ Announce
    \/ DeliverState

SpecRecords == InitSW /\ [][NextRecords]_vars

\* every pending callback runs, every suspended call resumes, every armed
\* timeout fires
SpecOverlayFair ==
    /\ SpecOverlay
    /\ WF_vars(DeliverState)
    /\ \A k \in Keys : SF_vars(OverlayResume(k))
    /\ SF_vars(OverlayTimer)

(* ---- hiding and showing the native chat ---- *)
\* the rest of the model stands still
NativeOnly ==
    UNCHANGED <<swVars, swInbox, pageVars, envBudget, obsVars, relayVars,
                emoteVars, timerVars, fwdVars, beatVars, listVars, badgeVars, uiVars>>

\* TwitchDetector.hideNativeChat: one style element, unless one is there
TwitchHideNativeChat ==
    /\ hideCalls < MaxHideCalls
    /\ hideCalls' = hideCalls + 1
    /\ hideRules' = IF hideRules > 0 THEN hideRules ELSE hideRules + 1
    /\ UNCHANGED ytChat
    /\ NativeOnly

\* TwitchDetector.showNativeChat: remove the style element
TwitchShowNativeChat ==
    /\ hideCalls' = 0
    /\ hideRules' = IF hideRules > 0 THEN hideRules - 1 ELSE hideRules
    /\ UNCHANGED ytChat
    /\ NativeOnly

\* findChatContainer: the first selector of getChatContainerSelector that
\* matches an element of the document
YtSelectorOrder == <<"frame", "container", "app">>

\* the elements in document order (the frame is stamped inside #chat-container,
\* the app inside the frame)
YtDocumentOrder == <<"container", "frame", "app">>

FirstOf(order, S) ==
    IF \E i \in 1..Len(order) : order[i] \in S
    THEN order[CHOOSE i \in 1..Len(order) :
                  /\ order[i] \in S
                  /\ \A j \in 1..(i - 1) : order[j] \notin S]
    ELSE "none"

FindChatContainer == FirstOf(YtSelectorOrder, {n \in YtNodes : ytChat[n] # "absent"})

\* YouTubeDetector.hideNativeChat: display none and data-allchat-hidden on
\* the element found
YouTubeHideNativeChat ==
    /\ hideCalls < MaxHideCalls
    /\ hideCalls' = hideCalls + 1
    /\ ytChat' = IF FindChatContainer = "none" THEN ytChat
                 ELSE [ytChat EXCEPT ![FindChatContainer] = "hidden"]
    /\ UNCHANGED hideRules
    /\ NativeOnly

\* YouTubeDetector.showNativeChat: document.querySelector of the attribute,
\* the first marked element in document order
YouTubeShowNativeChat ==
    /\ hideCalls' = 0
    /\ LET marked == FirstOf(YtDocumentOrder, {n \in YtNodes : ytChat[n] = "hidden"})
       IN ytChat' = IF marked = "none" THEN ytChat ELSE [ytChat EXCEPT ![marked] = "shown"]
    /\ UNCHANGED hideRules
    /\ NativeOnly

\* the host page stamps a native chat element, or drops one
HostStamps(n) ==
    /\ ytChat[n] = "absent"
    /\ ytChat' = [ytChat EXCEPT ![n] = "shown"]
    /\ UNCHANGED <<hideRules, hideCalls>>
    /\ NativeOnly

HostDrops(n) ==
    /\ ytChat[n] # "absent"
    /\ ytChat' = [ytChat EXCEPT ![n] = "absent"]
    /\ UNCHANGED <<hideRules, hideCalls>>
    /\ NativeOnly

NextNative ==
    \/ TwitchHideNativeChat
    \/ TwitchShowNativeChat
    \/ YouTubeHideNativeChat
    \/ YouTubeShowNativeChat
    \/ \E n \in YtNodes : HostStamps(n)
    \/ \E n \in YtNodes : HostDrops(n)

SpecNative == InitSW /\ [][NextNative]_vars

(* ---- the overlay's message list ---- *)
\* the list as it is, never cut
Uncut(l) == l
\* .slice(-50)
LastFifty(l) ==
    IF Len(l) > MESSAGE_WINDOW THEN SubSeq(l, Len(l) - MESSAGE_WINDOW + 1, Len(l)) ELSE l

ListOnly ==
    UNCHANGED <<swVars, swInbox, pageVars, envBudget, obsVars, relayVars,
                emoteVars, timerVars, fwdVars, beatVars, domVars, badgeVars, uiVars>>

\* handleMessage for a WS_MESSAGE of type chat_message with a new id: the
\* badge resolution starts, and the message is appended at once
ChatMessageArrives ==
    /\ arrived < MaxMessages
    /\ Cardinality(enriching) < MaxEnriching
    /\ arrived' = arrived + 1
    /\ enriching' = enriching \cup {arrived + 1}
    /\ messages' = LastFifty(Append(messages, [id |-> arrived + 1, enriched |-> FALSE]))
    /\ ListOnly

\* the promise of resolveTwitchBadgeIcons for message i resolves: replace
\* the message with that id, or append the enriched message if none is found
EnrichmentCompletes(i) ==
    /\ i \in enriching
    /\ enriching' = enriching \ {i}
    /\ LET enrichedMessage == [id |-> i, enriched |-> TRUE]
           found == {j \in 1..Len(messages) : messages[j].id = i}
       IN messages' =
             IF found # {}
             THEN LET existingIndex == CHOOSE j \in found : \A h \in found : j <= h
                  IN LastFifty([messages EXCEPT ![existingIndex] = enrichedMessage])
             ELSE LastFifty(Append(messages, enrichedMessage))
    /\ UNCHANGED arrived
    /\ ListOnly

NextMessages ==
    \/ ChatMessageArrives
    \/ \E i \in 1..MaxMessages : EnrichmentCompletes(i)

SpecMessages == InitSW /\ [][NextMessages]_vars

(* ---- the Twitch badge sets: fetchBadgeSets ---- *)
BadgeOnly ==
    UNCHANGED <<swVars, swInbox, pageVars, envBudget, obsVars, relayVars,
                emoteVars, timerVars, fwdVars, beatVars, domVars, listVars, uiVars>>

\* callers resumed by a settled request run as microtasks: no new call
\* (made from a message event) runs before all of them have run
Draining == \E k \in CacheKeys : resolving[k] # "none"

\* a request is started whatever inflightRequests holds
StartsAlways(cacheKey) == TRUE
\* if (!inflightRequests[cacheKey])
StartsRequest(cacheKey) == ~inflightRequests[cacheKey]

\* fetchBadgeSets(cacheKey, url) up to its return or its await
FetchBadgeSets(cacheKey) ==
    /\ ~Draining
    /\ badgeCalls[cacheKey] < MaxBadgeCalls
    /\ badgeCalls' = [badgeCalls EXCEPT ![cacheKey] = @ + 1]
    /\ IF badgeCache[cacheKey] # "none"
       THEN UNCHANGED <<inflightRequests, netRequests, awaiters>>
       ELSE /\ IF StartsRequest(cacheKey)
               THEN /\ inflightRequests' = [inflightRequests EXCEPT ![cacheKey] = TRUE]
                    /\ netRequests' = [netRequests EXCEPT ![cacheKey] = @ + 1]
               ELSE UNCHANGED <<inflightRequests, netRequests>>
            /\ awaiters' = [awaiters EXCEPT ![cacheKey] = @ + 1]
    /\ UNCHANGED <<badgeCache, resolving>>
    /\ BadgeOnly

\* the fetch settles: then or catch gives the result ("ok": the badge sets,
\* "fail": null), finally deletes the entry, and the awaiters become runnable
RequestSettles(cacheKey, result) ==
    /\ ~Draining
    /\ netRequests[cacheKey] > 0
    /\ netRequests' = [netRequests EXCEPT ![cacheKey] = @ - 1]
    /\ inflightRequests' = [inflightRequests EXCEPT ![cacheKey] = FALSE]
    /\ resolving' = [resolving EXCEPT ![cacheKey] = IF awaiters[cacheKey] > 0 THEN result ELSE "none"]
    /\ UNCHANGED <<badgeCache, awaiters, badgeCalls>>
    /\ BadgeOnly

\* one caller resumes after the await: if (result) badgeCache[cacheKey] = result
AwaiterResumes(cacheKey) ==
    /\ resolving[cacheKey] # "none"
    /\ awaiters[cacheKey] > 0
    /\ awaiters' = [awaiters EXCEPT ![cacheKey] = @ - 1]
    /\ badgeCache' = IF resolving[cacheKey] = "ok"
                     THEN [badgeCache EXCEPT ![cacheKey] = "sets"]
                     ELSE badgeCache
    /\ resolving' = IF awaiters[cacheKey] = 1
                    THEN [resolving EXCEPT ![cacheKey] = "none"]
                    ELSE resolving
    /\ UNCHANGED <<inflightRequests, netRequests, badgeCalls>>
    /\ BadgeOnly

NextBadges ==
    \/ \E k \in CacheKeys : FetchBadgeSets(k)
    \/ \E k \in CacheKeys, r \in {"ok", "fail"} : RequestSettles(k, r)
    \/ \E k \in CacheKeys : AwaiterResumes(k)

SpecBadges == InitSW /\ [][NextBadges]_vars

(* ---- the emote cache: fetchAllEmotes and the clock ---- *)
\* emoteCache.has(cacheKey) && now - timestamp <= CACHE_DURATION
CacheHitInclusive(ch, now) ==
    /\ cacheTimestamps[ch] # NoStamp
    /\ now - cacheTimestamps[ch] <= CACHE_DURATION
\* emoteCache.has(cacheKey) && now - timestamp < CACHE_DURATION
CacheHit(ch, now) ==
    /\ cacheTimestamps[ch] # NoStamp
    /\ now - cacheTimestamps[ch] < CACHE_DURATION

\* fetchAllEmotes(channelName) up to its return from the cache or to the
\* await of the three provider fetches
FetchAllEmotes(ch) ==
    /\ IF CacheHit(ch, clock)
       THEN UNCHANGED emoteCalls
       ELSE /\ Len(emoteCalls) < MaxEmoteCalls
            /\ emoteCalls' = Append(emoteCalls, [ch |-> ch, now |-> clock])
    /\ lastCall' = [ch |-> ch, now |-> clock, cached |-> CacheHit(ch, clock)]
    /\ UNCHANGED <<clock, ticks, cacheTimestamps, fetchedAt>>
    /\ UNCHANGED <<swVars, swInbox, pageVars, envBudget, obsVars, relayVars, timerVars, fwdVars, beatVars, moreVars>>

\* Promise.all resolved (the provider fetchers catch their own errors): the
\* entry of the call's channel is written with the call's `now`
FetchCompletes(i) ==
    /\ i \in 1..Len(emoteCalls)
    /\ LET c == emoteCalls[i]
       IN /\ cacheTimestamps' = [cacheTimestamps EXCEPT ![c.ch] = c.now]
          /\ fetchedAt' = [fetchedAt EXCEPT ![c.ch] = c.now]
    /\ emoteCalls' = [j \in 1..(Len(emoteCalls) - 1) |->
                        IF j < i THEN emoteCalls[j] ELSE emoteCalls[j + 1]]
    /\ UNCHANGED <<clock, ticks, lastCall>>
    /\ UNCHANGED <<swVars, swInbox, pageVars, envBudget, obsVars, relayVars, timerVars, fwdVars, beatVars, moreVars>>

\* time passes
Tick(d) ==
    /\ ticks < MaxTicks
    /\ ticks' = ticks + 1
    /\ clock' = clock + d
    /\ UNCHANGED <<cacheTimestamps, emoteCalls, fetchedAt, lastCall>>
    /\ UNCHANGED <<swVars, swInbox, pageVars, envBudget, obsVars, relayVars, timerVars, fwdVars, beatVars, moreVars>>

NextEmotes ==
    \/ \E ch \in Keys : FetchAllEmotes(ch) /\ UNCHANGED uiVars
    \/ \E i \in 1..MaxEmoteCalls : FetchCompletes(i) /\ UNCHANGED uiVars
    \/ \E d \in TickSizes : Tick(d) /\ UNCHANGED uiVars

SpecEmotes == InitSW /\ [][NextEmotes]_vars

(* ---- the reconciliation passes of one page, over every kind of location,
        with a worker whose transports do not fail ---- *)
NextPage ==
    \/ \E h \in HostStates : WithinBounds /\ HostMutation(h) /\ UNCHANGED uiVars
    \/ WithinBounds /\ HostRemovesOverlay /\ UNCHANGED uiVars
    \/ \E l \in AllLocations : WithinBounds /\ Navigate(l) /\ UNCHANGED uiVars
    \/ WithinBounds /\ ObserversFire /\ UNCHANGED uiVars
    \/ WithinBounds /\ LoadTimerFires /\ UNCHANGED uiVars
    \/ WithinBounds /\ UrlTimerFires /\ UNCHANGED uiVars
    \/ WithinBounds /\ ReinitTimerFires /\ UNCHANGED uiVars
    \/ \E u \in Usernames, o \in InitOrigins : WithinBounds /\ InitContinue(u, o) /\ UNCHANGED uiVars
    \/ WithinBounds /\ WorkerReceivesConnect /\ UNCHANGED uiVars
    \/ \E k \in Keys : WithinBounds /\ ConnectOpenTransport(k) /\ UNCHANGED envBudget /\ UNCHANGED uiVars
    \/ WithinBounds /\ TransportOpen /\ UNCHANGED envBudget /\ UNCHANGED uiVars
    \/ WithinBounds /\ ReconnectTimerFires /\ UNCHANGED envBudget /\ UNCHANGED uiVars
    \/ WithinBounds /\ CloseCompletes /\ UNCHANGED uiVars
    \/ \E k \in Keys : WithinBounds /\ OrphanCloseCompletes(k) /\ UNCHANGED uiVars

SpecPage == Init /\ [][NextPage]_vars

(* ======================================================================= *)
(*                               the claims                                *)
(* ======================================================================= *)

\* C1: at most one WebSocket in the CONNECTING or OPEN state exists at any
\* time, whatever the order of CONNECT_WEBSOCKET requests, reconnect-timer
\* firings and transport events; live transports for two keys never coexist.
C1_SingleLiveTransport == ActiveCount <= 1

\* C2: at most one overlay container (#allchat-container) exists in the page
\* at every reachable state, even transiently.
C2_AtMostOneOverlay == Len(containers) <= 1

\* C3: once reconciliation has settled, an overlay that exists is bound to
\* the key of the worker's current session.
C3_OverlayKeyIsSessionKey ==
    (Quiet /\ OrphanCount = 0) => \A i \in 1..Len(containers) : containers[i] = wsStreamerUsername

\* C4: after the location changed from alpha to beta while an overlay and a
\* session for alpha existed, once reconciliation has settled no transport of
\* alpha is live, the session is beta's, and exactly one overlay remains and
\* it is bound to beta.  (The host page shows its chat column throughout.)
C4_SwitchRebindsToBeta ==
    (scenario = "switch" /\ Quiet /\ OrphanCount = 0 /\ RightColumnExists) =>
        /\ wsStreamerUsername = "beta"
        /\ wsConnection.key = "beta"
        /\ \A rs \in {"CONNECTING", "OPEN"} : orphans[<<"alpha", rs>>] = 0
        /\ containers = <<"beta">>

\* a socket delivered its close event in this step
CloseHandled == LiveCount' < LiveCount

C6_FailedAfterMaxConnects ==
    failRun = WS_MAX_RECONNECT_ATTEMPTS => currentConnectionState = "failed"

\* C6 amended: the state is "failed" after exactly WS_MAX_RECONNECT_ATTEMPTS + 1
\* consecutive failed connects of a fresh session (the first connect and ten
\* reconnects), with no timer left pending; after 1..10 failed connects it
\* is "reconnecting", and it is never "failed" before the eleventh.
C6_FailedAfterMaxReconnects ==
    /\ failRun = WS_MAX_RECONNECT_ATTEMPTS + 1 =>
          currentConnectionState = "failed" /\ ~timerPending /\ ~reconnectTimeoutId
    /\ failRun \in 1..WS_MAX_RECONNECT_ATTEMPTS =>
          currentConnectionState = "reconnecting" /\ wsReconnectAttempts = failRun
    /\ failRun = 0 => currentConnectionState # "failed"
    /\ failRun <= WS_MAX_RECONNECT_ATTEMPTS + 1

\* the eleventh consecutive failed connect has been handled
C6_Witness ==
    /\ failRun = WS_MAX_RECONNECT_ATTEMPTS + 1
    /\ wsConnection.rs = "CLOSED"
    /\ currentConnectionState = "failed"

\* C7: while the state is "failed" no reconnect timer is pending, and until a
\* CONNECT_WEBSOCKET request arrives the connector opens no transport,
\* emits no state record and stays "failed".  (Steps that serve a request,
\* and states with a request still being served, are left out.)
C7_FailedIsTerminal ==
    [][ (/\ currentConnectionState = "failed"
         /\ CallCount = 0
         /\ ~(\E k \in Keys : TabConnect(k))
         /\ ~TabDisconnect) =>
          /\ ~timerPending
          /\ currentConnectionState' = "failed"
          /\ bcastParity' = bcastParity
          /\ ~timerPending'
          /\ CallCount' = 0
          /\ LiveCount' <= LiveCount ]_vars

\* C8: a CONNECT_WEBSOCKET request for the key of the session, arriving when
\* the session's transport is CONNECTING or OPEN and nothing has failed since
\* the request that opened it, is a no-op: no socket is closed and no
\* connectWebSocket call goes on to open a transport.
C8_SameKeyIsNoOp ==
    [][ \A k \in Keys :
          (/\ wsConnection.key = k
           /\ wsStreamerUsername = k
           /\ wsConnection.rs \in {"CONNECTING", "OPEN"}
           /\ wsReconnectAttempts = 0 /\ ~timerPending
           /\ OrphanCount = 0 /\ CallCount = 0
           /\ TabConnect(k)) =>
             (wsConnection' = wsConnection /\ calls' = calls) ]_vars

\* C9: after the host page removed the overlay while the key is unchanged,
\* the CONNECT_WEBSOCKET request of the rebuild (the init() started by the
\* observer's re-inject timeout) leaves the session untouched: no socket closed,
\* no connectWebSocket call that goes on to open a transport and emit a
\* record, counter and timer unchanged - whatever the session's state.
C9_RebuildLeavesSession ==
    [][ (/\ scenario = "removed"
         /\ swInbox # <<>>
         /\ swInbox' = Tail(swInbox)
         /\ Head(swInbox).origin = "reinit"
         /\ Head(swInbox).key = wsStreamerUsername
         /\ pageLoc = wsStreamerUsername
         /\ CallCount = 0 /\ OrphanCount = 0) =>
          /\ wsConnection' = wsConnection
          /\ calls' = calls
          /\ wsReconnectAttempts' = wsReconnectAttempts
          /\ timerPending' = timerPending
          /\ bcastParity' = bcastParity ]_vars

\* C10: once the disable signal has been processed while the state was
\* "connected" and everything it set off has finished, the session is
\* disconnected (no transport CONNECTING or OPEN, heartbeat and reconnect
\* timer released), no overlay is left and the native chat is no longer hidden.
C10_DisableTearsDown ==
    (scenario = "disabled" /\ Quiet /\ OrphanCount = 0) =>
        /\ currentConnectionState = "disconnected"
        /\ wsConnection.rs \notin {"CONNECTING", "OPEN"}
        /\ ~heartbeatInterval /\ ~timerPending
        /\ containers = <<>>
        /\ ~hideStyle

\* C11: after disconnectWebSocket the reported state is "disconnected" and
\* stays so, with no further state record, until the next CONNECT_WEBSOCKET
\* request - also when the closed socket delivers its close event.  (Steps
\* that serve a request, and states with a connectWebSocket call still
\* suspended, are left out.)
C11_DisconnectedStays ==
    [][ (/\ currentConnectionState = "disconnected"
         /\ wsStreamerUsername = NoKey
         /\ CallCount = 0
         /\ ~(\E k \in Keys : TabConnect(k))
         /\ ~TabDisconnect) =>
          /\ currentConnectionState' = "disconnected"
          /\ bcastParity' = bcastParity
          /\ ~timerPending' ]_vars

\* C12: once the location has gone from a channel with a settled overlay and a
\* connected session to one that resolves to no channel, and the page and the
\* worker have come to rest, the overlay is gone, native chat is shown again
\* and the session is torn down.
C12_LeavingTearsDown ==
    (scenario = "left" /\ Quiet /\ OrphanCount = 0) =>
        /\ containers = <<>>
        /\ ~hideStyle
        /\ wsStreamerUsername = NoKey
        /\ ~IsLive(wsConnection)
        /\ currentConnectionState = "disconnected"

\* C13: a reconciliation pass that starts while the location resolves to no
\* channel (no first path segment, or a segment of the exclusion set in any
\* letter case) starts no lookup, sends no CONNECT_WEBSOCKET, mounts no
\* overlay, does not touch the hide style and leaves the worker alone.
NullLocations == {"", "directory", "Directory"}

PassStarts == (LoadTimerFires /\ globalDetector) \/ UrlTimerFires \/ ReinitTimerFires

C13_NullResolutionDoesNothing ==
    [][ (pageLoc \in NullLocations /\ PassStarts) =>
          /\ inits' = inits
          /\ swInbox' = swInbox
          /\ containers' = containers
          /\ hideStyle' = hideStyle
          /\ mutationPending' = mutationPending
          /\ UNCHANGED swVars ]_vars

\* the URL watcher's pass has run on the capitalised listing page and the
\* page is untouched
C13_Witness ==
    /\ pageLoc = "Directory" /\ lastUrl = "Directory"
    /\ urlTimers = 0 /\ ~loadTimer /\ ~reinitTimeout
    /\ InitCount = 0 /\ mutationPending = "none"
    /\ containers = <<>> /\ ~hideStyle
    /\ swInbox = <<>> /\ CallCount = 0
    /\ wsStreamerUsername = NoKey

\* C15: when the lookup answers that the streamer is not configured, the rest
\* of the pass mounts no overlay, does not add the hide style, sends no
\* CONNECT_WEBSOCKET and leaves the worker alone.
C15_NotFoundIsSteady ==
    [][ \A u \in Usernames, o \in InitOrigins :
          (~(u \in Configured) /\ InitContinue(u, o)) =>
              /\ containers' = containers
              /\ hideStyle' = hideStyle
              /\ swInbox' = swInbox
              /\ UNCHANGED swVars ]_vars

\* the lookup for the unknown channel has just been answered on a page that
\* shows its native chat: the badge was appended and nothing else changed
C15_Witness ==
    /\ pageLoc = "gamma" /\ lastUrl = "gamma"
    /\ envBudget = MaxEnv - 1
    /\ urlTimers = 0 /\ ~loadTimer /\ ~reinitTimeout
    /\ InitCount = 0 /\ mutationPending = "body"
    /\ NativeExists
    /\ containers = <<>> /\ ~hideStyle
    /\ swInbox = <<>> /\ CallCount = 0
    /\ wsStreamerUsername = NoKey

\* C16: when the pass finds no mount anchor (no right column on the page), it
\* mounts no overlay, requests no session and leaves native chat as it was:
\* the hide style is not added.
C16_NoAnchorKeepsNativeChat ==
    [][ \A u \in Configured, o \in InitOrigins :
          (~RightColumnExists /\ InitContinue(u, o)) =>
              /\ containers' = containers
              /\ swInbox' = swInbox
              /\ hideStyle' = hideStyle ]_vars

\* C14: every open event sets the attempt counter to 0 and reports
\* "connected", the counter is 0 in every state reported as "connected", and
\* a close event handled in such a state arms the reconnect timeout with
\* exactly WS_RECONNECT_DELAY_MS - whatever the counter was before the open.
OpenHandled == TransportOpenRecorded \/ \E k \in Keys : OrphanOpenRecorded(k)

C14_OpenResetsBackoff ==
    [][ /\ OpenHandled =>
              wsReconnectAttempts' = 0 /\ currentConnectionState' = "connected"
        /\ currentConnectionState' = "connected" => wsReconnectAttempts' = 0
        /\ (currentConnectionState = "connected" /\ CloseHandled) =>
              /\ wsReconnectAttempts' = 1
              /\ currentConnectionState' = "reconnecting"
              /\ timerPending' /\ timerDelay' = WS_RECONNECT_DELAY_MS
              /\ lastReconnectIn' = WS_RECONNECT_DELAY_MS ]_vars

\* three failed connects (delays 1000, 2000, 3000), then an open that set the
\* counter back from 3, then the first close after it: the delay is 1000
C14_Witness ==
    /\ resetFrom = 3
    /\ currentConnectionState = "reconnecting"
    /\ wsReconnectAttempts = 1
    /\ timerPending /\ timerDelay = 1000
    /\ wsConnection.rs = "CLOSED"
    /\ OrphanCount = 0

\* C17: no WS_MESSAGE broadcast is produced for a ping or pong frame, and no
\* overlay is handed one.
C17_LivenessFramesSwallowed ==
    /\ \A i \in 1..Len(relayQueue) : ~(relayQueue[i].frame \in LivenessFrames)
    /\ \A t \in Tabs : ~(tabLast[t].frame \in LivenessFrames)

\* C19: the overlay of a tab is only ever handed frames of the session for
\* the tab's own key.
C19_RelayScopedByKey ==
    \A t \in Tabs : tabLast[t] # NoFrame => tabLast[t].key = TabKey[t]

\* C18: whenever the session's socket has closed and a reconnect timeout is
\* armed (the close found wsReconnectAttempts below the maximum), a new
\* socket for the same key is eventually created, unless the session is torn
\* down or rebound to another key.
C18_ReconnectsAfterClose ==
    \A k \in Keys :
        (/\ wsStreamerUsername = k
         /\ wsConnection = [key |-> k, rs |-> "CLOSED"]
         /\ timerPending
         /\ currentConnectionState = "reconnecting")
        ~> (\/ wsConnection.key = k /\ wsConnection.rs \in {"CONNECTING", "OPEN"}
            \/ wsStreamerUsername # k)

\* C20: at most one connectWebSocket call is in progress (suspended at its
\* awaits) at any time.
C20_OneConnectInProgress == CallCount <= 1

\* C21: a fetchAllEmotes call for a channel whose last completed fetch was
\* requested less than 5 minutes ago is served from the cache and starts no
\* provider fetch; a call made 5 minutes or more after that request, or with
\* no completed fetch, is not served from the cache and starts one; and no
\* call and no completion for one channel changes the entry of the other.
C21_EmoteCacheFiveMinutes ==
    [][ \A ch \in Keys :
          /\ FetchAllEmotes(ch) =>
                /\ (fetchedAt[ch] # NoStamp /\ clock - fetchedAt[ch] < 5 * 60 * 1000)
                      => lastCall'.cached /\ emoteCalls' = emoteCalls
                /\ (fetchedAt[ch] = NoStamp \/ clock - fetchedAt[ch] >= 5 * 60 * 1000)
                      => /\ ~lastCall'.cached
                         /\ emoteCalls' = Append(emoteCalls, [ch |-> ch, now |-> clock])
          /\ (FetchAllEmotes(ch)
                \/ \E i \in 1..Len(emoteCalls) : emoteCalls[i].ch = ch /\ FetchCompletes(i))
                => \A other \in Keys \ {ch} :
                      cacheTimestamps'[other] = cacheTimestamps[other] ]_vars

\* alpha was fetched at 0 and beta at 1; exactly five minutes after 0 a call
\* for beta was served from the cache and the call for alpha fetches again
C21_Witness ==
    /\ fetchedAt["alpha"] = 0
    /\ fetchedAt["beta"] = 1
    /\ clock = 5 * 60 * 1000
    /\ lastCall = [ch |-> "alpha", now |-> 5 * 60 * 1000, cached |-> FALSE]
    /\ emoteCalls = <<[ch |-> "alpha", now |-> 5 * 60 * 1000]>>

\* C22: when connectWebSocket creates the socket of a session for a key other
\* than the one the worker was bound to, the attempt counter is 0 and the
\* state record it broadcasts is "connecting" - whatever the previous session
\* left behind.  (Only steps with a single call in progress and no replaced
\* socket around are looked at.)
C22_NewSessionStartsFresh ==
    [][ \A k \in Keys :
          (/\ wsStreamerUsername # k
           /\ CallCount = 1 /\ OrphanCount = 0
           /\ ConnectOpenTransport(k)) =>
              /\ wsReconnectAttempts' = 0
              /\ currentConnectionState' = "connecting" ]_vars

\* C23: the close event of a socket that connectWebSocket itself closed when
\* it replaced the session by one for another key changes nothing of the new
\* session: not the attempt counter, not the reported state, not the
\* reconnect timeout, not the heartbeat.
C23_ReplacedCloseIsIgnored ==
    [][ \A k \in Keys :
          (/\ wsConnection.key \in Keys \ {k}
           /\ wsStreamerUsername = wsConnection.key
           /\ OrphanClose(k, "CLOSING")) =>
              /\ wsReconnectAttempts' = wsReconnectAttempts
              /\ currentConnectionState' = currentConnectionState
              /\ bcastParity' = bcastParity
              /\ timerPending' = timerPending
              /\ heartbeatInterval' = heartbeatInterval ]_vars

\* C24: from disconnectWebSocket until the next CONNECT_WEBSOCKET request (no
\* session key, no connectWebSocket call in progress) no reconnect timeout is
\* pending and no heartbeat interval is running.
C24_TeardownCancelsTimers ==
    (wsStreamerUsername = NoKey /\ CallCount = 0) =>
        (~timerPending /\ ~heartbeatInterval)

\* C25: in every state at most one reconnect timeout is pending: whatever
\* sockets deliver close events, the handler cancels the pending timeout
\* before it arms its own, so no two timed retries are pending together.
PendingTimers == (IF timerPending THEN 1 ELSE 0) + strayTimers

C26_HeartbeatWhileConnected ==
    (wsConnection.key \in Keys /\ wsConnection.rs = "OPEN") => heartbeatInterval

\* C27: for every reconnect attempt of a session (a retry started by the
\* reconnect timeout after a failed connect), the "reconnecting" record of the
\* close handler has been produced before, and the record produced when the
\* attempt's socket is created is "connecting".
C27_RetryAnnouncesConnecting ==
    [][ \A k \in Keys :
          (failRun >= 1 /\ CallCount = 1 /\ ConnectOpenTransport(k)) =>
              /\ currentConnectionState = "reconnecting"
              /\ bcastParity' # bcastParity
              /\ currentConnectionState' = "connecting" ]_vars

\* C28: every frame that parses and is not a ping or a pong is handed to
\* each overlay exactly once, with the payload JSON.parse gave, and the
\* overlay of a tab receives the frames in the order in which the sockets
\* delivered them: what a tab's overlay has received is exactly the
\* application frames among the broadcasts sent since it mounted, in order.
AppFrames(ms) == SelectSeq(ms, LAMBDA m : m.type \notin LivenessFrames)

ParsedFrames ==
    LET P == SelectSeq(inbound, LAMBDA r : Parses(r.type))
    IN [i \in 1..Len(P) |-> JsonParse(P[i])]

PendingRebuilds == (IF reinitTimeout THEN 1 ELSE 0) + urlTimers

C29_BurstYieldsOneInit == (containers = <<>>) => PendingRebuilds <= 1

\* C30: a pass of the body observer that finds more than one overlay
\* container leaves exactly one, the earliest created (containers are
\* appended to document.body, so the first in document order), and removes
\* the others in that same pass.
C30_PassKeepsEarliest ==
    [][ (mutationPending = "body" /\ Len(containers) > 1 /\ ObserversFire) =>
            containers' = <<Head(containers)>> ]_vars

\* the container for beta, appended by the init() that queued the connect
\* request still in the inbox, has been removed by a pass that found it next
\* to the earlier container for alpha
C30_Witness ==
    /\ containers = <<"alpha">>
    /\ swInbox # <<>> /\ Head(swInbox).key = "beta"
    /\ mutationPending = "body"

\* C31: the state GET_CONNECTION_STATE returns (the last state broadcast)
\* agrees with the current socket: it is "connected" exactly when the
\* current socket is open.
TransportIsOpen == wsConnection.key \in Keys /\ wsConnection.rs = "OPEN"

C31_ReportedStateAgrees ==
    TransportIsOpen <=> (currentConnectionState = "connected")

\* C32: an overlay created while the session for its channel is connected
\* and no state record is on its way (the request it sends is a no-op)
\* eventually displays "connected", unless the session stops being connected.
CreatedWhileConnected ==
    /\ uiStatus # NoStatus /\ uiStatus.state = "connecting"
    /\ TransportIsOpen /\ currentConnectionState = "connected"
    /\ CallCount = 0 /\ stateQueue = <<>>

C32_OverlayEventuallyConnected ==
    CreatedWhileConnected ~>
        (uiStatus.state = "connected" \/ ~TransportIsOpen \/ currentConnectionState # "connected")

\* C33: once the page has processed the disable signal (the detector is
\* dropped and the extension is still disabled), no step adds an overlay
\* container or hides the native chat again.
DisableProcessed == ~extensionEnabled /\ ~globalDetector

C33_DisabledStaysNative ==
    [][ DisableProcessed =>
            /\ Len(containers') <= Len(containers)
            /\ (hideStyle' => hideStyle) ]_vars

\* C34: at most one heartbeat interval is running at any time: none is left
\* running that heartbeatInterval no longer refers to.
ActiveIntervals == (IF heartbeatInterval THEN 1 ELSE 0) + strayIntervals

C34_OneHeartbeatInterval == ActiveIntervals <= 1

\* C35: hiding never removes a native element and is idempotent (at most one
\* hide rule or hide mark, however many calls), and a showNativeChat after
\* any number of hides leaves every native element present and visible.
C35_HideShowRoundTrip ==
    [][ /\ (TwitchHideNativeChat \/ YouTubeHideNativeChat \/
            TwitchShowNativeChat \/ YouTubeShowNativeChat) =>
               \A n \in YtNodes : (ytChat[n] = "absent") <=> (ytChat'[n] = "absent")
        /\ TwitchHideNativeChat => hideRules' <= 1
        /\ YouTubeHideNativeChat =>
               Cardinality({n \in YtNodes : ytChat'[n] = "hidden"}) <= 1
        /\ TwitchShowNativeChat => hideRules' = 0
        /\ YouTubeShowNativeChat => \A n \in YtNodes : ytChat'[n] # "hidden" ]_vars

\* C36: the attempt counter stays within 0..WS_MAX_RECONNECT_ATTEMPTS, and
\* every state record an overlay has received carries an attempt count in
\* that range together with the maximum.
C36_AttemptsWithinRange ==
    /\ wsReconnectAttempts \in 0..WS_MAX_RECONNECT_ATTEMPTS
    /\ \/ uiStatus \in {NoStatus, InitialStatus}
       \/ /\ uiStatus.maxAttempts = WS_MAX_RECONNECT_ATTEMPTS
          /\ uiStatus.attempts \in 0..WS_MAX_RECONNECT_ATTEMPTS

\* the overlay shows the record of the tenth reconnect
C36_Witness ==
    /\ uiStatus.state = "reconnecting"
    /\ uiStatus.attempts = WS_MAX_RECONNECT_ATTEMPTS
    /\ uiStatus.maxAttempts = WS_MAX_RECONNECT_ATTEMPTS

\* C37: a frame that is not valid JSON is dropped without effect: no
\* WS_MESSAGE is queued or handed to an overlay, the socket stays as it is,
\* and the state, the attempt counter, the heartbeat and the reconnect
\* timeout are unchanged.
C37_BadFrameDropped ==
    [][ \A k \in Keys :
          ReceiveFrame(k, "unparsable") =>
              /\ fwdQueue' = fwdQueue /\ tabLog' = tabLog
              /\ wsConnection' = wsConnection /\ orphans' = orphans
              /\ currentConnectionState' = currentConnectionState
              /\ bcastParity' = bcastParity
              /\ wsReconnectAttempts' = wsReconnectAttempts
              /\ heartbeatInterval' = heartbeatInterval
              /\ timerPending' = timerPending
              /\ reconnectTimeoutId' = reconnectTimeoutId ]_vars

\* the open socket of a connected session has just delivered a frame that
\* does not parse, after a chat message that was handed to the overlay
C37_Witness ==
    /\ Len(inbound) = 2
    /\ inbound[1].type = "chat_message" /\ inbound[2].type = "unparsable"
    /\ fwdQueue = <<>>
    /\ \E t \in Tabs : Len(tabLog[t]) = 1
    /\ TransportIsOpen /\ currentConnectionState = "connected" /\ heartbeatInterval

\* C38: whatever chat messages arrive and whenever their badge resolutions
\* complete, the overlay's list holds at most 50 messages.
C38_AtMostFiftyMessages == Len(messages) <= MESSAGE_WINDOW

\* the list is full and a resolution that completed after its message had
\* left the list has appended the enriched message
C38_Witness ==
    /\ Len(messages) = MESSAGE_WINDOW
    /\ messages[MESSAGE_WINDOW] = [id |-> 1, enriched |-> TRUE]

\* C39: with distinct ids, each message appears at most once in the list and
\* the list is in arrival order, whenever the resolutions complete.
C39_ListInArrivalOrder ==
    \A i, j \in 1..Len(messages) : i < j => messages[i].id < messages[j].id

\* C40: for each badge cache key at most one request is in flight at any
\* time; once a result is cached no call issues a request; a failed request
\* caches nothing, and a later call, made when nothing is cached and no
\* request is in flight, issues a new request.
C40_OneRequestPerKey ==
    /\ [](\A k \in CacheKeys : netRequests[k] <= 1)
    /\ [][\A k \in CacheKeys :
            /\ badgeCache[k] # "none" => netRequests'[k] <= netRequests[k]
            /\ resolving[k] = "fail" => badgeCache'[k] = "none"
            /\ (/\ badgeCalls'[k] # badgeCalls[k]
                /\ badgeCache[k] = "none"
                /\ netRequests[k] = 0) => netRequests'[k] = 1]_vars

\* two calls for one key have come back with nothing cached (their shared
\* request failed), and a third call has a new request in flight
C40_Witness ==
    /\ badgeCalls["channel"] = 3
    /\ awaiters["channel"] = 1
    /\ netRequests["channel"] = 1
    /\ badgeCache["channel"] = "none"
    /\ badgeCache["global"] = "sets"

====
